---- MODULE Spec2Model ----
(***************************************************************************)
(* Huntio server: the session protocol of auth.controller.ts (register,    *)
(* login, logout, refresh) over the User and RefreshToken tables, and the  *)
(* /applications endpoints behind authenticateToken over JobApplication.   *)
(*                                                                         *)
(* Every controller is an async function: it runs synchronously up to an   *)
(* await on the database, and other requests run while it is suspended.    *)
(* One action is one such stretch: the code from the request's arrival (or *)
(* from the previous database call's return) up to and including the next *)
(* database call.  The awaits on bcrypt touch no shared state and are      *)
(* folded into the stretch they belong to.                                 *)
(*                                                                         *)
(* A behaviour covers a window shorter than the shortest token lifetime:   *)
(* tokens minted in the window do not expire in it; an expired token is a  *)
(* token that was issued before the window.                                *)
(***************************************************************************)
EXTENDS Integers, Sequences, FiniteSets, TLC

\* ------------------------------------------------------------- bounds
MaxMint == 3
MaxApplications == 2
MaxSignals == 2

\* ------------------------------------------------------------- inputs
Slots == {"s1", "s2"}
Emails == {"a@x", "b@x"}
Passwords == {<<"pw1">>, <<"pw2">>}
Usernames == {"alice"}
Companies == {"acme", "globex"}

\* ------------------------------------------------------------- values
NoToken == <<>>
Cleared == <<"cleared">>
NoBody ==
  [accessToken |-> NoToken, refreshToken |-> NoToken, message |-> "", applications |-> {},
   users |-> {}]

\* res.json({ message })
Json(message) == [NoBody EXCEPT !.message = message]

BAD_REQUEST == 400
UNAUTHORIZED == 401
FORBIDDEN == 403
INTERNAL_SERVER_ERROR == 500
OK == 200
CREATED == 201
NO_CONTENT == 204

\* ------------------------------------------------------------- helper.ts
\* A request body is a record; object = FALSE stands for a body that is
\* null, an array or a primitive.
isObject(value) == value.object

Bodies ==
  [object : {TRUE}, username : Usernames, email : Emails, password : Passwords]
    \cup {[object |-> FALSE, username |-> "", email |-> "", password |-> <<>>]}

\* Users choose pw1; pw2 is the password of a login attempt that is wrong.
RegisterBodies == {b \in Bodies : b.password # <<"pw2">>}

\* ------------------------------------------------------------- jwt.service.ts
\* A signed token is the sequence of its parts in the order they are
\* serialised: header, sub, jti, expiry, signing key.
createJwtPayload(sub, jti) == [sub |-> sub, jti |-> jti]

JwtSign(payload, secret, expiresIn) ==
  <<"HS256", payload.sub, payload.jti, expiresIn, secret>>

generateAccessToken(payload, secretAccessKey) == JwtSign(payload, secretAccessKey, "15m")

generateRefreshToken(payload, secretRefreshKey) == JwtSign(payload, secretRefreshKey, "7d")

\* jwt.verify(token, secret) throws unless the signature was made with
\* secret and the token has not expired.
JwtVerifyThrows(token, secret) ==
  \/ Len(token) # 5
  \/ token[5] # secret
  \/ token[4] = "expired"

JwtDecoded(token) == createJwtPayload(token[2], token[3])

\* ------------------------------------------------------------- crypto.util.ts
\* bcrypt reads the first 72 bytes of its input.  Of a serialised token
\* these are the header and the leading part of the sub claim; a password
\* is shorter than that.
Truncate72(str) == IF Len(str) > 2 THEN <<str[1], str[2]>> ELSE str

hash(str) == Truncate72(str)

compare(data, encrypted) == Truncate72(data) = encrypted

\* ------------------------------------------------------------- state
VARIABLES
  env,            \* process.env: the two signing secrets ("" = unset)
  users,          \* table User
  refreshTokens,  \* table RefreshToken
  nextUserId,     \* ids the database has handed out
  nextUuid,       \* randomUUID(): a value never returned before
  req,            \* per slot: the request being handled, with its controller's position
  resp,           \* the response sent last, with the request it answers
  issued,         \* refresh tokens that reached a client in a response
  rotations,      \* <<token presented, token issued>> of every refresh answered 200
  applications,   \* table JobApplication
  nextApplicationId,  \* ids the database has handed out to applications
  dbDown,         \* the database rejects every call
  proc            \* index.ts: the process, its shutdown and its exit

vars == <<env, users, refreshTokens, nextUserId, nextUuid, req, resp, issued, rotations,
          applications, nextApplicationId, dbDown, proc>>

\* ctx and rival record how the request stood to the rest of the traffic
\* when it arrived; no controller reads them.
IdleReq ==
  [op |-> "none", pc |-> "idle", cookie |-> NoToken, userId |-> 0,
   accessToken |-> NoToken, refreshToken |-> NoToken, ctx |-> {}, rival |-> NoToken]

\* authorization is the Authorization header of the request, split at the
\* blank; userId is the req.userId a controller behind authenticateToken
\* ran with, 0 when none ran.
NoResp ==
  [op |-> "none", cookie |-> NoToken, ctx |-> {}, rival |-> NoToken,
   status |-> 0, setCookie |-> NoToken, body |-> NoBody,
   authorization |-> <<>>, userId |-> 0]

\* Tokens a client can put in the refreshToken cookie that this server did
\* not hand out in the window: one signed with a foreign key and one that
\* the server signed long ago.
ForeignTokens ==
  {<<"HS256", 1, 0, "7d", "other-secret">>, <<"HS256", 1, 0, "expired", "refresh-secret">>}

Cookies == {NoToken} \cup issued \cup ForeignTokens

\* The access tokens that reached a client: every response that carries a
\* refresh token carries the access token minted just before it.
issuedAccess ==
  {generateAccessToken(createJwtPayload(t[2], t[3] - 1), "access-secret") : t \in issued}

\* Access tokens this server did not hand out in the window: one signed
\* with a foreign key and one that expired.
ForeignAccessTokens ==
  {<<"HS256", 1, 0, "15m", "other-secret">>, <<"HS256", 1, 0, "expired", "access-secret">>}

\* What a client can send as Authorization header: none, another scheme,
\* Bearer with no token, Bearer with an access token.
Authorizations ==
  {<<>>, <<"Basic", <<"dXNlcjpwdw">>>>, <<"Bearer">>}
    \cup {<<"Bearer", t>> : t \in issuedAccess \cup ForeignAccessTokens}

\* Bodies of POST /applications and PATCH /applications/:id.  The columns
\* jobTitle, workModel, salary and status are copied like companyName.
ApplicationBodies ==
  [object : {TRUE}, companyName : Companies, userId : {1, 2}]
    \cup {[object |-> FALSE, companyName |-> "", userId |-> 0]}

ApplicationIds == 1 .. MaxApplications

spent == {p[1] : p \in rotations}

Init ==
  /\ env = [ACCESS_TOKEN_SECRET |-> "access-secret", REFRESH_TOKEN_SECRET |-> "refresh-secret"]
  /\ users = {}
  /\ refreshTokens = {}
  /\ nextUserId = 1
  /\ nextUuid = 1
  /\ req = [s \in Slots |-> IdleReq]
  /\ resp = NoResp
  /\ issued = {}
  /\ rotations = {}
  /\ applications = {}
  /\ nextApplicationId = 1
  /\ dbDown = FALSE
  /\ proc = [dbCheck |-> "pending", shuttingDown |-> FALSE, exitCode |-> 0,
             forceTimer |-> "none", pc |-> "listening", exited |-> FALSE, code |-> 0,
             exitFrom |-> "none", closeErr |-> FALSE,
             signals |-> 0, disconnects |-> 0, closes |-> 0]

\* ------------------------------------------------------------- users.service.ts
findUserByEmail(email) == {u \in users : u.email = email}

findUserById(userId) == {u \in users : u.id = userId}

\* Variant: the User table has no unique index on email.
CreateUserNeverThrows(email) == dbDown

\* prisma.user.create: the unique index User_email_key rejects a second
\* row with the same email.  Every call rejects while the database is down.
createUserThrows(email) == dbDown \/ findUserByEmail(email) # {}

createUser(username, email, hashedPassword) ==
  users \cup {[id |-> nextUserId, email |-> email, username |-> username,
               firstname |-> "", hashedPassword |-> hashedPassword]}

\* A field the request body does not carry: Prisma leaves the column of an
\* undefined value as it is.
Undefined == "undefined"

\* prisma.user.update throws when no row has the id and when User_email_key
\* rejects the new email.
updateUserByIdThrows(userId, user) ==
  \/ dbDown
  \/ \A u \in users : u.id # userId
  \/ user.email # Undefined /\ \E u \in users : u.email = user.email /\ u.id # userId

updateUserById(userId, user) ==
  {IF u.id = userId
     THEN [u EXCEPT !.firstname = IF user.firstname = Undefined THEN @ ELSE user.firstname,
                    !.email = IF user.email = Undefined THEN @ ELSE user.email,
                    !.username = IF user.username = Undefined THEN @ ELSE user.username]
     ELSE u : u \in users}

\* ------------------------------------------------------------- refreshTokens.service.ts
findRefreshTokenByUserId(userId) == {r \in refreshTokens : r.userId = userId}

\* prisma.refreshToken.create: RefreshToken_userId_key rejects a second row
\* for the user.
createRefreshTokenThrows(userId) == dbDown \/ findRefreshTokenByUserId(userId) # {}

\* Variant: the row gets the jti of the access token minted with it.
CreateWithAccessJti(hashed, userId, jti) ==
  refreshTokens \cup {[userId |-> userId, hash |-> hashed, jti |-> jti - 1]}

createRefreshToken(hashed, userId, jti) ==
  refreshTokens \cup {[userId |-> userId, hash |-> hashed, jti |-> jti]}

\* Variant: updating no row is not an error (updateMany).
UpdateNeverThrows(userId) == FALSE

\* prisma.refreshToken.update throws when no row matches.
updateHashOfRefreshTokenByUserIdThrows(userId) == dbDown \/ findRefreshTokenByUserId(userId) = {}

\* Variant: the update writes the hash and leaves the jti.
UpdateKeepsJti(userId, hashed, jti) ==
  {IF r.userId = userId THEN [r EXCEPT !.hash = hashed] ELSE r : r \in refreshTokens}

updateHashOfRefreshTokenByUserId(userId, hashed, jti) ==
  {IF r.userId = userId THEN [r EXCEPT !.hash = hashed, !.jti = jti] ELSE r : r \in refreshTokens}

\* Variant: the upsert is an update; it inserts nothing.
UpsertUpdatesOnly(userId, hashed, jti) ==
  {IF r.userId = userId THEN [r EXCEPT !.hash = hashed, !.jti = jti] ELSE r : r \in refreshTokens}

\* Variant: the upsert inserts whether or not the user has a row.
UpsertAppends(userId, hashed, jti) ==
  refreshTokens \cup {[userId |-> userId, hash |-> hashed, jti |-> jti]}

\* Variant: the upsert leaves an existing row as it is.
UpsertKeepsExisting(userId, hashed, jti) ==
  IF findRefreshTokenByUserId(userId) = {}
    THEN refreshTokens \cup {[userId |-> userId, hash |-> hashed, jti |-> jti]}
    ELSE refreshTokens

upsertHashOfRefreshTokenByUserId(userId, hashed, jti) ==
  IF findRefreshTokenByUserId(userId) = {}
    THEN refreshTokens \cup {[userId |-> userId, hash |-> hashed, jti |-> jti]}
    ELSE updateHashOfRefreshTokenByUserId(userId, hashed, jti)

\* Variant: deleting no row is not an error (deleteMany).
DeleteNeverThrows(userId) == FALSE

\* prisma.refreshToken.delete throws when no row matches.
deleteRefreshTokenByUserIdThrows(userId) == dbDown \/ findRefreshTokenByUserId(userId) = {}

\* Variant: the delete has no where clause.
DeleteEveryRow(userId) == {}

deleteRefreshTokenByUserId(userId) == {r \in refreshTokens : r.userId # userId}

\* ------------------------------------------------------------- requests
Idle(s) == req[s].pc = "idle"

Quiet == \A s \in Slots : Idle(s)

NewReq(op, cookie) == [IdleReq EXCEPT !.op = op, !.cookie = cookie]

\* The response with this status to request r.
Respond(r, status) ==
  [NoResp EXCEPT !.op = r.op, !.cookie = r.cookie, !.ctx = r.ctx, !.rival = r.rival,
                 !.status = status]

CanMint == nextUuid + 1 <= 2 * MaxMint

\* The two tokens of one mint: randomUUID() twice, sign twice.
MintAccess(userId) ==
  generateAccessToken(createJwtPayload(userId, nextUuid), env.ACCESS_TOKEN_SECRET)

MintRefresh(userId) ==
  generateRefreshToken(createJwtPayload(userId, nextUuid + 1), env.REFRESH_TOKEN_SECRET)

Misconfigured == env.ACCESS_TOKEN_SECRET = "" \/ env.REFRESH_TOKEN_SECRET = ""

\* How a request presenting this cookie stands to the tables and to the
\* response sent last:
\*   spent       a refresh presenting the cookie was answered 200
\*   norecord    the cookie verifies and its subject has no RefreshToken row
\*   registered  the last response is a 201 of register that set the cookie
\*   loggedin    the last response is a 200 of login that set the cookie
\*   stale       the last response is a 200 of login for the cookie's
\*               subject, which set another cookie
\*   cookie      the last response is a 200 of refresh that set the cookie
\*   loggedout   the last response is a 204 of logout to the same cookie
CookieCtx(cookie) ==
  IF Len(cookie) = 0 THEN {}
  ELSE
    {tag \in {"spent"} : cookie \in spent}
    \cup {tag \in {"norecord"} :
            /\ ~JwtVerifyThrows(cookie, env.REFRESH_TOKEN_SECRET)
            /\ \A r \in refreshTokens : r.userId # cookie[2]}
    \cup {tag \in {"registered"} :
            resp.op = "register" /\ resp.status = CREATED /\ cookie = resp.setCookie}
    \cup {tag \in {"loggedin"} :
            resp.op = "login" /\ resp.status = OK /\ cookie = resp.setCookie}
    \cup {tag \in {"stale"} :
            /\ resp.op = "login" /\ resp.status = OK
            /\ cookie \in issued /\ cookie # resp.setCookie /\ cookie[2] = resp.setCookie[2]}
    \cup {tag \in {"cookie"} :
            resp.op = "refresh" /\ resp.status = OK /\ cookie = resp.setCookie}
    \cup {tag \in {"loggedout"} :
            resp.op = "logout" /\ resp.status = NO_CONTENT /\ cookie = resp.cookie}

\* ------------------------------------------------------------- cookies.service.ts
setRefreshCookie(res, refreshToken) == [res EXCEPT !.setCookie = refreshToken]

\* ------------------------------------------------------------- auth.controller.ts
\* register, from the request's arrival to the await on createRefreshToken.
Register(s, body) ==
  /\ Idle(s)
  /\ LET r == NewReq("register", NoToken) IN
     IF ~isObject(body)
       THEN /\ resp' = [Respond(r, BAD_REQUEST) EXCEPT !.body = Json("The request body is not an object")]
            /\ UNCHANGED <<users, nextUserId, nextUuid, req>>
     ELSE IF createUserThrows(body.email)
       THEN /\ resp' = Respond(r, INTERNAL_SERVER_ERROR)
            /\ UNCHANGED <<users, nextUserId, nextUuid, req>>
     ELSE /\ users' = createUser(body.username, body.email, hash(body.password))
          /\ nextUserId' = nextUserId + 1
          /\ IF Misconfigured
               THEN /\ resp' = [Respond(r, INTERNAL_SERVER_ERROR) EXCEPT !.body = Json("Server misconfigured")]
                    /\ UNCHANGED <<nextUuid, req>>
               ELSE /\ CanMint
                    /\ nextUuid' = nextUuid + 2
                    /\ req' = [req EXCEPT ![s] =
                                 [r EXCEPT !.pc = "createRefreshToken",
                                           !.userId = nextUserId,
                                           !.accessToken = MintAccess(nextUserId),
                                           !.refreshToken = MintRefresh(nextUserId)]]
                    /\ UNCHANGED resp
  /\ UNCHANGED <<applications, nextApplicationId, dbDown, proc>>
  /\ UNCHANGED <<env, refreshTokens, issued, rotations>>

\* register, from createRefreshToken to the response.
RegisterStore(s) ==
  /\ req[s].op = "register"
  /\ req[s].pc = "createRefreshToken"
  /\ LET r == req[s] IN
     IF createRefreshTokenThrows(r.userId)
       THEN /\ resp' = Respond(r, INTERNAL_SERVER_ERROR)
            /\ UNCHANGED <<refreshTokens, issued>>
       ELSE /\ refreshTokens' = createRefreshToken(hash(r.refreshToken), r.userId, r.refreshToken[3])
            /\ resp' = [setRefreshCookie(Respond(r, CREATED), r.refreshToken)
                          EXCEPT !.body = [NoBody EXCEPT !.accessToken = r.accessToken]]
            /\ issued' = issued \cup {r.refreshToken}
  /\ req' = [req EXCEPT ![s] = IdleReq]
  /\ UNCHANGED <<applications, nextApplicationId, dbDown, proc>>
  /\ UNCHANGED <<env, users, nextUserId, nextUuid, rotations>>

\* The logins of the same user that are being handled when one arrives in s.
Rivals(s, userId) ==
  {o \in Slots \ {s} : req[o].op = "login" /\ req[o].pc = "upsert" /\ req[o].userId = userId}

\* Variant: an unknown email gets a message of its own.
LoginChecksReveals(body) ==
  IF ~isObject(body)
    THEN [status |-> BAD_REQUEST, message |-> "The request body is not an object"]
  ELSE IF dbDown
    THEN [status |-> INTERNAL_SERVER_ERROR, message |-> ""]
  ELSE IF findUserByEmail(body.email) = {}
    THEN [status |-> UNAUTHORIZED, message |-> "No user with this email"]
  ELSE IF ~compare(body.password, (CHOOSE u \in findUserByEmail(body.email) : TRUE).hashedPassword)
    THEN [status |-> UNAUTHORIZED, message |-> "Email or password are incorrect"]
  ELSE IF Misconfigured
    THEN [status |-> INTERNAL_SERVER_ERROR, message |-> "Server misconfigured"]
  ELSE [status |-> 0, message |-> ""]

\* The checks of login on the request body, in the code's order: status
\* and message of the first check that fails, status 0 when all pass.  A
\* findUserByEmail that rejects is caught by the controller's catch block.
LoginChecks(body) ==
  IF ~isObject(body)
    THEN [status |-> BAD_REQUEST, message |-> "The request body is not an object"]
  ELSE IF dbDown
    THEN [status |-> INTERNAL_SERVER_ERROR, message |-> ""]
  ELSE IF findUserByEmail(body.email) = {}
    THEN [status |-> UNAUTHORIZED, message |-> "Email or password are incorrect"]
  ELSE IF ~compare(body.password, (CHOOSE u \in findUserByEmail(body.email) : TRUE).hashedPassword)
    THEN [status |-> UNAUTHORIZED, message |-> "Email or password are incorrect"]
  ELSE IF Misconfigured
    THEN [status |-> INTERNAL_SERVER_ERROR, message |-> "Server misconfigured"]
  ELSE [status |-> 0, message |-> ""]

\* login, from the request's arrival to the await on the upsert.
Login(s, body) ==
  /\ Idle(s)
  /\ LET r == NewReq("login", NoToken)
         failed == LoginChecks(body)
     IN
     IF failed.status # 0
       THEN /\ resp' = [Respond(r, failed.status) EXCEPT !.body = Json(failed.message)]
            /\ UNCHANGED <<nextUuid, req>>
       ELSE LET user == CHOOSE u \in findUserByEmail(body.email) : TRUE IN
            /\ CanMint
            /\ nextUuid' = nextUuid + 2
            /\ req' = [o \in Slots |->
                         IF o = s
                           THEN [r EXCEPT !.pc = "upsert",
                                          !.userId = user.id,
                                          !.accessToken = MintAccess(user.id),
                                          !.refreshToken = MintRefresh(user.id),
                                          !.rival = IF Rivals(s, user.id) = {} THEN NoToken
                                                    ELSE req[CHOOSE x \in Rivals(s, user.id) : TRUE].refreshToken]
                         ELSE IF o \in Rivals(s, user.id)
                           THEN [req[o] EXCEPT !.rival = MintRefresh(user.id)]
                         ELSE req[o]]
            /\ UNCHANGED resp
  /\ UNCHANGED <<applications, nextApplicationId, dbDown, proc>>
  /\ UNCHANGED <<env, users, refreshTokens, nextUserId, issued, rotations>>

\* login, from the upsert to the response.  An upsert that rejects is
\* caught by the catch block.
LoginUpsert(s) ==
  /\ req[s].op = "login"
  /\ req[s].pc = "upsert"
  /\ LET r == req[s] IN
     IF dbDown
       THEN /\ resp' = Respond(r, INTERNAL_SERVER_ERROR)
            /\ UNCHANGED <<refreshTokens, issued>>
       ELSE /\ refreshTokens' = upsertHashOfRefreshTokenByUserId(r.userId, hash(r.refreshToken), r.refreshToken[3])
            /\ resp' = [setRefreshCookie(Respond(r, OK), r.refreshToken)
                          EXCEPT !.body = [NoBody EXCEPT !.accessToken = r.accessToken]]
            /\ issued' = issued \cup {r.refreshToken}
  /\ req' = [req EXCEPT ![s] = IdleReq]
  /\ UNCHANGED <<applications, nextApplicationId, dbDown, proc>>
  /\ UNCHANGED <<env, users, nextUserId, nextUuid, rotations>>

\* Variant: logout compares the jti of the cookie with the stored one and
\* answers 403 when they differ.
LogoutChecksJti(s, cookie) ==
  /\ Idle(s)
  /\ LET r == [NewReq("logout", cookie) EXCEPT !.ctx = CookieCtx(cookie)] IN
     IF Len(cookie) = 0
       THEN /\ resp' = Respond(r, BAD_REQUEST)
            /\ UNCHANGED <<refreshTokens, req>>
     ELSE IF env.REFRESH_TOKEN_SECRET = ""
       THEN /\ resp' = [Respond(r, INTERNAL_SERVER_ERROR) EXCEPT !.body = Json("Server misconfigured")]
            /\ UNCHANGED <<refreshTokens, req>>
     ELSE IF JwtVerifyThrows(cookie, env.REFRESH_TOKEN_SECRET)
       THEN /\ resp' = Respond(r, 0)
            /\ UNCHANGED <<refreshTokens, req>>
     ELSE LET userId == JwtDecoded(cookie).sub IN
       IF deleteRefreshTokenByUserIdThrows(userId)
         THEN /\ resp' = Respond(r, INTERNAL_SERVER_ERROR)
              /\ UNCHANGED <<refreshTokens, req>>
       ELSE IF \E row \in findRefreshTokenByUserId(userId) : row.jti # JwtDecoded(cookie).jti
         THEN /\ resp' = Respond(r, FORBIDDEN)
              /\ UNCHANGED <<refreshTokens, req>>
         ELSE /\ refreshTokens' = deleteRefreshTokenByUserId(userId)
              /\ req' = [req EXCEPT ![s] = [r EXCEPT !.pc = "findUser", !.userId = userId]]
              /\ UNCHANGED resp
  /\ UNCHANGED <<applications, nextApplicationId, dbDown, proc>>
  /\ UNCHANGED <<env, users, refreshTokens, nextUserId, nextUuid, issued, rotations>>

\* logout, from the request's arrival to the await on findUserById.  The
\* jwt.verify call stands outside the try block: when it throws, the
\* exception leaves the controller, which sends nothing (status 0).
Logout(s, cookie) ==
  /\ Idle(s)
  /\ LET r == [NewReq("logout", cookie) EXCEPT !.ctx = CookieCtx(cookie)] IN
     IF Len(cookie) = 0
       THEN /\ resp' = Respond(r, BAD_REQUEST)
            /\ UNCHANGED <<refreshTokens, req>>
     ELSE IF env.REFRESH_TOKEN_SECRET = ""
       THEN /\ resp' = [Respond(r, INTERNAL_SERVER_ERROR) EXCEPT !.body = Json("Server misconfigured")]
            /\ UNCHANGED <<refreshTokens, req>>
     ELSE IF JwtVerifyThrows(cookie, env.REFRESH_TOKEN_SECRET)
       THEN /\ resp' = Respond(r, 0)
            /\ UNCHANGED <<refreshTokens, req>>
     ELSE LET userId == JwtDecoded(cookie).sub IN
       IF deleteRefreshTokenByUserIdThrows(userId)
         THEN /\ resp' = Respond(r, INTERNAL_SERVER_ERROR)
              /\ UNCHANGED <<refreshTokens, req>>
         ELSE /\ refreshTokens' = deleteRefreshTokenByUserId(userId)
              /\ req' = [req EXCEPT ![s] = [r EXCEPT !.pc = "findUser", !.userId = userId]]
              /\ UNCHANGED resp
  /\ UNCHANGED <<applications, nextApplicationId, dbDown, proc>>
  /\ UNCHANGED <<env, users, nextUserId, nextUuid, issued, rotations>>

\* logout, from findUserById to the response.  A findUserById that
\* rejects, and user.username of a missing user, throw inside the try
\* block.
LogoutFinish(s) ==
  /\ req[s].op = "logout"
  /\ req[s].pc = "findUser"
  /\ LET r == req[s] IN
     IF dbDown \/ findUserById(r.userId) = {}
       THEN resp' = Respond(r, INTERNAL_SERVER_ERROR)
       ELSE resp' = [Respond(r, NO_CONTENT) EXCEPT !.setCookie = Cleared]
  /\ req' = [req EXCEPT ![s] = IdleReq]
  /\ UNCHANGED <<applications, nextApplicationId, dbDown, proc>>
  /\ UNCHANGED <<env, users, refreshTokens, nextUserId, nextUuid, issued, rotations>>

\* Variant: no null check on the stored row; reading its hash throws, and
\* the catch block answers.
RefreshChecksNoNullCheck(refreshToken) ==
  IF Len(refreshToken) = 0 THEN UNAUTHORIZED
  ELSE IF env.REFRESH_TOKEN_SECRET = "" THEN INTERNAL_SERVER_ERROR
  ELSE IF JwtVerifyThrows(refreshToken, env.REFRESH_TOKEN_SECRET) THEN INTERNAL_SERVER_ERROR
  ELSE IF env.ACCESS_TOKEN_SECRET = "" THEN INTERNAL_SERVER_ERROR
  ELSE IF dbDown THEN INTERNAL_SERVER_ERROR
  ELSE LET decoded == JwtDecoded(refreshToken)
           stored == findRefreshTokenByUserId(decoded.sub)
       IN
       IF stored = {} THEN INTERNAL_SERVER_ERROR
       ELSE LET storedRefreshToken == CHOOSE row \in stored : TRUE IN
         IF ~compare(refreshToken, storedRefreshToken.hash) THEN FORBIDDEN
         ELSE IF decoded.jti # storedRefreshToken.jti THEN FORBIDDEN
         ELSE 0

\* The checks of refresh on the presented cookie, in the code's order: the
\* status of the first check that fails, 0 when all pass.  A jwt.verify
\* that throws, and a findRefreshTokenByUserId that rejects, are caught by
\* the controller's catch block.
RefreshChecks(refreshToken) ==
  IF Len(refreshToken) = 0 THEN UNAUTHORIZED
  ELSE IF env.REFRESH_TOKEN_SECRET = "" THEN INTERNAL_SERVER_ERROR
  ELSE IF JwtVerifyThrows(refreshToken, env.REFRESH_TOKEN_SECRET) THEN INTERNAL_SERVER_ERROR
  ELSE IF env.ACCESS_TOKEN_SECRET = "" THEN INTERNAL_SERVER_ERROR
  ELSE IF dbDown THEN INTERNAL_SERVER_ERROR
  ELSE LET decoded == JwtDecoded(refreshToken)
           stored == findRefreshTokenByUserId(decoded.sub)
       IN
       IF stored = {} THEN FORBIDDEN
       ELSE LET storedRefreshToken == CHOOSE row \in stored : TRUE IN
         IF ~compare(refreshToken, storedRefreshToken.hash) THEN FORBIDDEN
         ELSE IF decoded.jti # storedRefreshToken.jti THEN FORBIDDEN
         ELSE 0

\* The message refresh sends with the status of a failed check; the catch
\* block sends none.
RefreshMessage(refreshToken, status) ==
  IF status = UNAUTHORIZED THEN "The refresh token is not valid"
  ELSE IF status = FORBIDDEN
    THEN IF findRefreshTokenByUserId(JwtDecoded(refreshToken).sub) = {}
           THEN "The user has no refresh token stored in the database"
           ELSE "The refresh token is not valid"
  ELSE IF env.REFRESH_TOKEN_SECRET = "" THEN "Server misconfigured"
  ELSE IF JwtVerifyThrows(refreshToken, env.REFRESH_TOKEN_SECRET) THEN ""
  ELSE IF env.ACCESS_TOKEN_SECRET = "" THEN "Server misconfigured"
  ELSE ""

\* Variant: a refresh that answers 403 deletes the subject's row.
RefreshRevokesOnReuse(s, cookie) ==
  /\ Idle(s)
  /\ LET r == [NewReq("refresh", cookie) EXCEPT !.ctx = CookieCtx(cookie)]
         failed == RefreshChecks(cookie)
     IN
     IF failed # 0
       THEN /\ resp' = [Respond(r, failed) EXCEPT !.body = Json(RefreshMessage(cookie, failed))]
            /\ refreshTokens' = IF failed = FORBIDDEN
                                  THEN deleteRefreshTokenByUserId(JwtDecoded(cookie).sub)
                                  ELSE refreshTokens
            /\ UNCHANGED <<nextUuid, req>>
       ELSE LET userId == JwtDecoded(cookie).sub IN
            /\ CanMint
            /\ nextUuid' = nextUuid + 2
            /\ req' = [req EXCEPT ![s] =
                         [r EXCEPT !.pc = "update",
                                   !.userId = userId,
                                   !.accessToken = MintAccess(userId),
                                   !.refreshToken = MintRefresh(userId)]]
            /\ UNCHANGED <<resp, refreshTokens>>
  /\ UNCHANGED <<applications, nextApplicationId, dbDown, proc>>
  /\ UNCHANGED <<env, users, nextUserId, issued, rotations>>

\* refresh, from the request's arrival to the await on the update.
Refresh(s, cookie) ==
  /\ Idle(s)
  /\ LET r == [NewReq("refresh", cookie) EXCEPT !.ctx = CookieCtx(cookie)]
         failed == RefreshChecks(cookie)
     IN
     IF failed # 0
       THEN /\ resp' = [Respond(r, failed) EXCEPT !.body = Json(RefreshMessage(cookie, failed))]
            /\ UNCHANGED <<nextUuid, req>>
       ELSE LET userId == JwtDecoded(cookie).sub IN
            /\ CanMint
            /\ nextUuid' = nextUuid + 2
            /\ req' = [req EXCEPT ![s] =
                         [r EXCEPT !.pc = "update",
                                   !.userId = userId,
                                   !.accessToken = MintAccess(userId),
                                   !.refreshToken = MintRefresh(userId)]]
            /\ UNCHANGED resp
  /\ UNCHANGED <<applications, nextApplicationId, dbDown, proc>>
  /\ UNCHANGED <<env, users, refreshTokens, nextUserId, issued, rotations>>

\* refresh, from the update to the await on findUserById.
RefreshUpdate(s) ==
  /\ req[s].op = "refresh"
  /\ req[s].pc = "update"
  /\ LET r == req[s] IN
     IF updateHashOfRefreshTokenByUserIdThrows(r.userId)
       THEN /\ resp' = Respond(r, INTERNAL_SERVER_ERROR)
            /\ req' = [req EXCEPT ![s] = IdleReq]
            /\ UNCHANGED refreshTokens
       ELSE /\ refreshTokens' = updateHashOfRefreshTokenByUserId(r.userId, hash(r.refreshToken), r.refreshToken[3])
            /\ req' = [req EXCEPT ![s] = [r EXCEPT !.pc = "findUser"]]
            /\ UNCHANGED resp
  /\ UNCHANGED <<applications, nextApplicationId, dbDown, proc>>
  /\ UNCHANGED <<env, users, nextUserId, nextUuid, issued, rotations>>

\* The response of a refresh that passed: the cookie is set from the
\* variable refreshToken, which holds the token the request presented; the
\* body carries the two new tokens.
RefreshResponse(r) ==
  [setRefreshCookie(Respond(r, OK), r.cookie)
     EXCEPT !.body = [accessToken |-> r.accessToken, refreshToken |-> r.refreshToken]]

\* refresh, from findUserById to the response.
RefreshFinish(s) ==
  /\ req[s].op = "refresh"
  /\ req[s].pc = "findUser"
  /\ LET r == req[s] IN
     IF dbDown \/ findUserById(r.userId) = {}
       THEN /\ resp' = Respond(r, INTERNAL_SERVER_ERROR)
            /\ UNCHANGED <<issued, rotations>>
       ELSE /\ resp' = RefreshResponse(r)
            /\ issued' = issued \cup {r.refreshToken}
            /\ rotations' = rotations \cup {<<r.cookie, r.refreshToken>>}
  /\ req' = [req EXCEPT ![s] = IdleReq]
  /\ UNCHANGED <<applications, nextApplicationId, dbDown, proc>>
  /\ UNCHANGED <<env, users, refreshTokens, nextUserId, nextUuid>>

\* ------------------------------------------------------------- applications.service.ts
findApplicationsByUserId(userId) == {a \in applications : a.userId = userId}

\* prisma.jobApplication.delete and update throw when no row has the id.
deleteApplicationByIdThrows(applicationId) ==
  dbDown \/ \A a \in applications : a.id # applicationId

deleteApplicationById(applicationId) == {a \in applications : a.id # applicationId}

updateApplicationByIdThrows(applicationId) ==
  dbDown \/ \A a \in applications : a.id # applicationId

updateApplicationById(application, applicationId) ==
  {IF a.id = applicationId THEN [a EXCEPT !.companyName = application.companyName] ELSE a :
     a \in applications}

\* Variant: the owner is taken from the request body.
CreateWithBodyUserId(application, userId) ==
  applications \cup {[id |-> nextApplicationId, companyName |-> application.companyName,
                      userId |-> application.userId]}

createJobApplicationByUserId(application, userId) ==
  applications \cup {[id |-> nextApplicationId, companyName |-> application.companyName,
                      userId |-> userId]}

\* ------------------------------------------------------------- authenticateToken.middleware.ts
\* Variant: a token is accepted only while its subject has a RefreshToken
\* row.
AuthenticateChecksSession(authHeader) ==
  IF Len(authHeader) = 0
    THEN [status |-> UNAUTHORIZED, message |-> "Missing Authorization header", userId |-> 0]
  ELSE IF authHeader[1] # "Bearer" \/ Len(authHeader) < 2
    THEN [status |-> UNAUTHORIZED, message |-> "Invalid Authorization header format", userId |-> 0]
  ELSE IF env.ACCESS_TOKEN_SECRET = ""
    THEN [status |-> INTERNAL_SERVER_ERROR, message |-> "Server misconfigured", userId |-> 0]
  ELSE IF JwtVerifyThrows(authHeader[2], env.ACCESS_TOKEN_SECRET)
    THEN [status |-> INTERNAL_SERVER_ERROR, message |-> "", userId |-> 0]
  ELSE IF findRefreshTokenByUserId(JwtDecoded(authHeader[2]).sub) = {}
    THEN [status |-> UNAUTHORIZED, message |-> "", userId |-> 0]
  ELSE [status |-> 0, message |-> "", userId |-> JwtDecoded(authHeader[2]).sub]

\* The status the request is answered with before any controller runs, or
\* status 0 and the req.userId the controller runs with.  jwt.verify is
\* called outside any try block and the app registers no error handler:
\* when it throws, the router's default error handler answers 500.
authenticateToken(authHeader) ==
  IF Len(authHeader) = 0
    THEN [status |-> UNAUTHORIZED, message |-> "Missing Authorization header", userId |-> 0]
  ELSE IF authHeader[1] # "Bearer" \/ Len(authHeader) < 2
    THEN [status |-> UNAUTHORIZED, message |-> "Invalid Authorization header format", userId |-> 0]
  ELSE IF env.ACCESS_TOKEN_SECRET = ""
    THEN [status |-> INTERNAL_SERVER_ERROR, message |-> "Server misconfigured", userId |-> 0]
  ELSE IF JwtVerifyThrows(authHeader[2], env.ACCESS_TOKEN_SECRET)
    THEN [status |-> INTERNAL_SERVER_ERROR, message |-> "", userId |-> 0]
  ELSE [status |-> 0, message |-> "", userId |-> JwtDecoded(authHeader[2]).sub]

\* The response to a request that authenticateToken answered itself.
Rejected(op, authHeader) ==
  [NoResp EXCEPT !.op = op, !.authorization = authHeader,
                 !.status = authenticateToken(authHeader).status,
                 !.body = Json(authenticateToken(authHeader).message)]

\* The response of the controller that ran with this req.userId.
Answered(op, authHeader, userId, status) ==
  [NoResp EXCEPT !.op = op, !.authorization = authHeader, !.userId = userId, !.status = status]

\* ------------------------------------------------------------- applications.controller.ts
\* The controllers behind authenticateToken have no try block: a database
\* call that rejects leaves the controller, which sends nothing (status
\* 0).  Each writes JobApplication in its first database call and then
\* only reads the user's name for the log, so a request is one step.
CreateApplication(s, authHeader, body) ==
  /\ Idle(s)
  /\ LET auth == authenticateToken(authHeader) IN
     IF auth.status # 0
       THEN /\ resp' = Rejected("createApplication", authHeader)
            /\ UNCHANGED <<applications, nextApplicationId>>
     ELSE IF ~isObject(body)
       THEN /\ resp' = [Answered("createApplication", authHeader, auth.userId, BAD_REQUEST)
                          EXCEPT !.body = Json("The request body is not an object")]
            /\ UNCHANGED <<applications, nextApplicationId>>
     ELSE IF dbDown
       THEN /\ resp' = Answered("createApplication", authHeader, auth.userId, 0)
            /\ UNCHANGED <<applications, nextApplicationId>>
     ELSE /\ nextApplicationId <= MaxApplications
          /\ applications' = createJobApplicationByUserId(body, auth.userId)
          /\ nextApplicationId' = nextApplicationId + 1
          /\ resp' = Answered("createApplication", authHeader, auth.userId,
                              IF findUserById(auth.userId) = {} THEN 0 ELSE OK)
  /\ UNCHANGED <<env, users, refreshTokens, nextUserId, nextUuid, req, issued, rotations, dbDown, proc>>

DeleteApplication(s, authHeader, applicationId) ==
  /\ Idle(s)
  /\ LET auth == authenticateToken(authHeader) IN
     IF auth.status # 0
       THEN /\ resp' = Rejected("deleteApplication", authHeader)
            /\ UNCHANGED applications
     ELSE IF deleteApplicationByIdThrows(applicationId)
       THEN /\ resp' = Answered("deleteApplication", authHeader, auth.userId, 0)
            /\ UNCHANGED applications
     ELSE /\ applications' = deleteApplicationById(applicationId)
          /\ resp' = Answered("deleteApplication", authHeader, auth.userId,
                              IF findUserById(auth.userId) = {} THEN 0 ELSE NO_CONTENT)
  /\ UNCHANGED <<env, users, refreshTokens, nextUserId, nextUuid, req, issued, rotations,
                 nextApplicationId, dbDown, proc>>

UpdateApplication(s, authHeader, applicationId, body) ==
  /\ Idle(s)
  /\ LET auth == authenticateToken(authHeader) IN
     IF auth.status # 0
       THEN /\ resp' = Rejected("updateApplication", authHeader)
            /\ UNCHANGED applications
     ELSE IF ~isObject(body)
       THEN /\ resp' = [Answered("updateApplication", authHeader, auth.userId, BAD_REQUEST)
                          EXCEPT !.body = Json("The request body is not an object")]
            /\ UNCHANGED applications
     ELSE IF updateApplicationByIdThrows(applicationId)
       THEN /\ resp' = Answered("updateApplication", authHeader, auth.userId, 0)
            /\ UNCHANGED applications
     ELSE /\ applications' = updateApplicationById(body, applicationId)
          /\ resp' = Answered("updateApplication", authHeader, auth.userId,
                              IF findUserById(auth.userId) = {} THEN 0 ELSE NO_CONTENT)
  /\ UNCHANGED <<env, users, refreshTokens, nextUserId, nextUuid, req, issued, rotations,
                 nextApplicationId, dbDown, proc>>

GetAllApplications(s, authHeader) ==
  /\ Idle(s)
  /\ LET auth == authenticateToken(authHeader) IN
     IF auth.status # 0
       THEN resp' = Rejected("getAllApplications", authHeader)
     ELSE IF dbDown
       THEN resp' = Answered("getAllApplications", authHeader, auth.userId, 0)
     ELSE resp' = [Answered("getAllApplications", authHeader, auth.userId, OK)
                     EXCEPT !.body = [NoBody EXCEPT !.applications = findApplicationsByUserId(auth.userId)]]
  /\ UNCHANGED <<env, users, refreshTokens, nextUserId, nextUuid, req, issued, rotations,
                 applications, nextApplicationId, dbDown, proc>>

\* ------------------------------------------------------------- users.controller.ts
\* The bodies of requests to /users/me: an object with any of firstname,
\* email and username, or no object (a request without a JSON body).
UserBodies ==
  [object : {TRUE}, firstname : {Undefined, "Al"}, email : Emails \cup {Undefined},
   username : {Undefined, "bob"}]
    \cup {[object |-> FALSE, firstname |-> Undefined, email |-> Undefined,
            username |-> Undefined]}

\* getMe, behind authenticateToken, for the route that op names.
getMe(s, op, authHeader) ==
  /\ Idle(s)
  /\ LET auth == authenticateToken(authHeader) IN
     IF auth.status # 0
       THEN resp' = Rejected(op, authHeader)
     ELSE IF dbDown
       THEN resp' = Answered(op, authHeader, auth.userId, 0)
     ELSE resp' = [Answered(op, authHeader, auth.userId, OK)
                     EXCEPT !.body = [NoBody EXCEPT !.users = findUserById(auth.userId)]]
  /\ UNCHANGED <<env, users, refreshTokens, nextUserId, nextUuid, req, issued, rotations,
                 applications, nextApplicationId, dbDown, proc>>

\* updateMe, behind authenticateToken, for the route that op names.
updateMe(s, op, authHeader, body) ==
  /\ Idle(s)
  /\ LET auth == authenticateToken(authHeader) IN
     IF auth.status # 0
       THEN /\ resp' = Rejected(op, authHeader)
            /\ UNCHANGED users
     ELSE IF ~isObject(body)
       THEN /\ resp' = [Answered(op, authHeader, auth.userId, BAD_REQUEST)
                          EXCEPT !.body = Json("The request body is not an object")]
            /\ UNCHANGED users
     ELSE IF updateUserByIdThrows(auth.userId, body)
       THEN /\ resp' = Answered(op, authHeader, auth.userId, 0)
            /\ UNCHANGED users
     ELSE /\ users' = updateUserById(auth.userId, body)
          /\ resp' = Answered(op, authHeader, auth.userId, NO_CONTENT)
  /\ UNCHANGED <<env, refreshTokens, nextUserId, nextUuid, req, issued, rotations,
                 applications, nextApplicationId, dbDown, proc>>

\* ------------------------------------------------------------- users.route.ts
\* router.patch("/me", getMe)
PatchUsersMe(s, authHeader, body) == getMe(s, "PATCH /users/me", authHeader)

\* router.get("/me", updateMe)
GetUsersMe(s, authHeader, body) == updateMe(s, "GET /users/me", authHeader, body)

\* ------------------------------------------------------------- environment
\* The process is restarted with another environment while no request is
\* being handled.
Redeploy(e) ==
  /\ Quiet
  /\ e # env
  /\ env' = e
  /\ UNCHANGED <<users, refreshTokens, nextUserId, nextUuid, req, resp, issued, rotations,
                 applications, nextApplicationId, dbDown, proc>>

Environments ==
  [ACCESS_TOKEN_SECRET : {"", "access-secret"}, REFRESH_TOKEN_SECRET : {"", "refresh-secret"}]

\* The database becomes unreachable, or reachable again, at any moment.
DbToggle ==
  /\ dbDown' = ~dbDown
  /\ UNCHANGED <<env, users, refreshTokens, nextUserId, nextUuid, req, resp, issued, rotations,
                 applications, nextApplicationId, proc>>

\* ------------------------------------------------------------- index.ts
\* The process runs until process.exit.
Alive == ~proc.exited

\* Variant: shutdown without the shuttingDown check.
ShutdownUnguarded(exitCode) ==
  [proc EXCEPT !.shuttingDown = TRUE,
               !.exitCode = exitCode,
               !.forceTimer = "armed",
               !.pc = "disconnect",
               !.disconnects = @ + 1]

\* shutdown(exitCode) up to its await: a call while shuttingDown returns;
\* the first call sets shuttingDown, arms forceTimer and calls
\* prisma.$disconnect().
shutdown(exitCode) ==
  IF proc.shuttingDown
    THEN proc
    ELSE [proc EXCEPT !.shuttingDown = TRUE,
                      !.exitCode = exitCode,
                      !.forceTimer = "armed",
                      !.pc = "disconnect",
                      !.disconnects = @ + 1]

Signals == {"SIGINT", "SIGTERM"}

\* process.on("SIGINT" / "SIGTERM", () => void shutdown(0))
Signal(sig) ==
  /\ Alive
  /\ proc.signals < MaxSignals
  /\ proc' = [shutdown(0) EXCEPT !.signals = @ + 1]
  /\ UNCHANGED <<env, users, refreshTokens, nextUserId, nextUuid, req, resp, issued, rotations,
                 applications, nextApplicationId, dbDown>>

\* The listen callback after its await on isConnectedToDB: SELECT 1 fails
\* while the database is down, and the callback calls shutdown(1).
DbCheck ==
  /\ Alive
  /\ proc.dbCheck = "pending"
  /\ proc' = IF dbDown THEN [shutdown(1) EXCEPT !.dbCheck = "failed"]
                       ELSE [proc EXCEPT !.dbCheck = "ok"]
  /\ UNCHANGED <<env, users, refreshTokens, nextUserId, nextUuid, req, resp, issued, rotations,
                 applications, nextApplicationId, dbDown>>

\* prisma.$disconnect() settles, resolved or rejected, and shutdown calls
\* server.close: the server stops accepting connections.
DisconnectSettles ==
  /\ Alive
  /\ proc.pc = "disconnect"
  /\ proc' = [proc EXCEPT !.pc = "closing", !.closes = @ + 1]
  /\ UNCHANGED <<env, users, refreshTokens, nextUserId, nextUuid, req, resp, issued, rotations,
                 applications, nextApplicationId, dbDown>>

\* The callback of server.close: it runs with an error when the server was
\* not listening, and without one once every connection has ended.  It
\* clears forceTimer and exits.
CloseCallback(err) ==
  /\ Alive
  /\ proc.pc = "closing"
  /\ err \/ Quiet
  /\ proc' = [proc EXCEPT !.forceTimer = "cleared",
                          !.pc = "exit",
                          !.exited = TRUE,
                          !.exitFrom = "close",
                          !.closeErr = err,
                          !.code = IF err THEN 1 ELSE proc.exitCode]
  /\ UNCHANGED <<env, users, refreshTokens, nextUserId, nextUuid, req, resp, issued, rotations,
                 applications, nextApplicationId, dbDown>>

\* The callback of forceTimer: process.exit(1).
ForceTimerFires ==
  /\ Alive
  /\ proc.forceTimer = "armed"
  /\ proc' = [proc EXCEPT !.pc = "exit", !.exited = TRUE, !.exitFrom = "timer", !.code = 1]
  /\ UNCHANGED <<env, users, refreshTokens, nextUserId, nextUuid, req, resp, issued, rotations,
                 applications, nextApplicationId, dbDown>>

\* ------------------------------------------------------------- specifications
Arrival(s) ==
  \/ \E body \in RegisterBodies : Register(s, body)
  \/ \E body \in Bodies : Login(s, body)
  \/ \E cookie \in Cookies : Logout(s, cookie)
  \/ \E cookie \in Cookies : Refresh(s, cookie)

Resume(s) ==
  \/ RegisterStore(s)
  \/ LoginUpsert(s)
  \/ LogoutFinish(s)
  \/ RefreshUpdate(s)
  \/ RefreshFinish(s)

\* Requests arrive at any time and run interleaved at their awaits.
Next == \E s \in Slots : Arrival(s) \/ Resume(s)

Spec == Init /\ [][Next]_vars

\* One client that waits for each response before its next request.
NextSeq == \E s \in Slots : (Quiet /\ Arrival(s)) \/ Resume(s)

SeqSpec == Init /\ [][NextSeq]_vars

ApiArrival(s) ==
  \/ \E h \in Authorizations, body \in ApplicationBodies : CreateApplication(s, h, body)
  \/ \E h \in Authorizations, id \in ApplicationIds : DeleteApplication(s, h, id)
  \/ \E h \in Authorizations, id \in ApplicationIds, body \in ApplicationBodies :
        UpdateApplication(s, h, id, body)
  \/ \E h \in Authorizations : GetAllApplications(s, h)

\* Clients that register and then use /applications, one request at a
\* time.
NextApi ==
  \E s \in Slots :
    \/ Quiet /\ ((\E body \in RegisterBodies : Register(s, body)) \/ ApiArrival(s))
    \/ RegisterStore(s)

ApiSpec == Init /\ [][NextApi]_vars

\* Clients that register and then use /users/me, one request at a time.
NextUsers ==
  \E s \in Slots :
    \/ Quiet /\ \/ \E body \in RegisterBodies : Register(s, body)
                \/ \E h \in Authorizations, body \in UserBodies : GetUsersMe(s, h, body)
                \/ \E h \in Authorizations, body \in UserBodies : PatchUsersMe(s, h, body)
    \/ RegisterStore(s)

UsersSpec == Init /\ [][NextUsers]_vars

\* One client that uses the session endpoints and GET /applications.
NextAccess ==
  \E s \in Slots :
    \/ Quiet /\ (Arrival(s) \/ \E h \in Authorizations : GetAllApplications(s, h))
    \/ Resume(s)

AccessSpec == Init /\ [][NextAccess]_vars

\* One client of the session endpoints and of GET /applications, while the
\* process is redeployed with other environments.
NextConf ==
  \/ NextAccess
  \/ \E e \in Environments : Redeploy(e)

ConfSpec == Init /\ [][NextConf]_vars

\* Clients that register and log in, one request at a time, while the
\* process is redeployed and the database fails and recovers.
NextFault ==
  \/ \E s \in Slots :
        \/ Quiet /\ ( \/ \E body \in RegisterBodies : Register(s, body)
                      \/ \E body \in Bodies : Login(s, body) )
        \/ RegisterStore(s)
        \/ LoginUpsert(s)
  \/ \E e \in Environments : Redeploy(e)
  \/ DbToggle

FaultSpec == Init /\ [][NextFault]_vars

\* The process from the listen callback to its exit: it serves register
\* requests until process.exit and accepts none once server.close was
\* called, the database fails and recovers, and signals arrive.
NextShutdown ==
  \/ \E sig \in Signals : Signal(sig)
  \/ DbCheck
  \/ DisconnectSettles
  \/ \E err \in BOOLEAN : CloseCallback(err)
  \/ ForceTimerFires
  \/ Alive /\ DbToggle
  \/ \E s \in Slots :
        \/ Alive /\ proc.pc # "closing" /\ \E body \in RegisterBodies : Register(s, body)
        \/ Alive /\ RegisterStore(s)

\* A timer that is armed fires unless it is cleared or the process exits
\* first; nothing is assumed of prisma.$disconnect() or of the callback of
\* server.close, which may never come.
ShutdownSpec == Init /\ [][NextShutdown]_vars /\ WF_vars(ForceTimerFires)

\* ------------------------------------------------------------- properties
\* The row that stores this refresh token.
RecordOf(token) == [userId |-> token[2], hash |-> hash(token), jti |-> token[3]]

\* A request was answered in the stretch it arrived in.
AnsweredOnArrival == resp' # resp /\ req' = req

\* C1: once a refresh presenting a token was answered 200, the checks of
\* refresh answer 403 to that token in every later state, and every
\* refresh that arrives with it is answered 403.
C1_RotationInvariant ==
  /\ \A t \in spent : RefreshChecks(t) = FORBIDDEN
  /\ (resp.op = "refresh" /\ "spent" \in resp.ctx) => resp.status = FORBIDDEN

\* A refresh of a spent token was answered 403 while its subject has a row.
C1_Witness ==
  /\ resp.op = "refresh" /\ "spent" \in resp.ctx /\ resp.status = FORBIDDEN
  /\ findRefreshTokenByUserId(resp.cookie[2]) # {}

\* C2: after a login answered 200 its user has exactly one row, the checks
\* of refresh pass the token that login issued and answer 403 to every
\* other token issued to the user; a refresh that presents the login's
\* token next is answered 200, one that presents an earlier token 403.
C2_SingleSession ==
  /\ (Quiet /\ resp.op = "login" /\ resp.status = OK) =>
        LET t == resp.setCookie IN
        /\ Cardinality(findRefreshTokenByUserId(t[2])) = 1
        /\ RefreshChecks(t) = 0
        /\ \A o \in issued \ {t} : o[2] = t[2] => RefreshChecks(o) = FORBIDDEN
  /\ (resp.op = "refresh" /\ "loggedin" \in resp.ctx) => resp.status = OK
  /\ (resp.op = "refresh" /\ "stale" \in resp.ctx) => resp.status = FORBIDDEN

\* After register and two logins of one user, a refresh with an earlier
\* token was answered 403.
C2_Witness ==
  /\ resp.op = "refresh" /\ "stale" \in resp.ctx /\ resp.status = FORBIDDEN
  /\ Cardinality({o \in issued : o[2] = resp.cookie[2]}) >= 3
  /\ Cardinality(findRefreshTokenByUserId(resp.cookie[2])) = 1

\* C3: no two refreshes that presented the same token were both answered
\* 200.
C3_SingleUse == \A p, q \in rotations : p[1] = q[1] => p = q

\* C4: a refresh answered 200 sets the cookie to the refresh token it
\* minted, the one in its body, and a refresh presenting the cookie that
\* the refresh before it set is answered 200.
C4_CookieIsNewToken ==
  /\ (resp.op = "refresh" /\ resp.status = OK) =>
        /\ resp.setCookie = resp.body.refreshToken
        /\ resp.body.accessToken # NoToken
  /\ (resp.op = "refresh" /\ "cookie" \in resp.ctx) => resp.status = OK

\* C5: no user has two rows in RefreshToken; the upsert of login leaves the
\* user with the one row of the new token, and the update of refresh
\* keeps the number of rows.
C5_AtMostOneRecord ==
  /\ [](\A r1, r2 \in refreshTokens : r1.userId = r2.userId => r1 = r2)
  /\ [][\A s \in Slots :
          /\ (req[s].op = "login" /\ req[s].pc = "upsert" /\ req'[s].pc = "idle") =>
                {r \in refreshTokens' : r.userId = req[s].userId} = {RecordOf(req[s].refreshToken)}
          /\ (req[s].op = "refresh" /\ req[s].pc = "update" /\ req'[s].pc # "update") =>
                Cardinality(refreshTokens') = Cardinality(refreshTokens)]_vars

\* Two users have a row each, one of them rewritten by a refresh.
C5_Witness ==
  /\ Cardinality(refreshTokens) = 2
  /\ \E p \in rotations : RecordOf(p[2]) \in refreshTokens

\* C6: when two logins of one user that were handled at the same time have
\* both been answered 200, the user has exactly one row, it is the row of
\* one of the two tokens, and the checks of refresh pass exactly one of
\* the two tokens and answer 403 to the other.
C6_ConcurrentLogins ==
  (Quiet /\ resp.op = "login" /\ resp.status = OK /\ resp.rival # NoToken) =>
    LET t == resp.setCookie
        o == resp.rival
        rows == findRefreshTokenByUserId(t[2])
    IN
    /\ o \in issued
    /\ Cardinality(rows) = 1
    /\ rows \subseteq {RecordOf(t), RecordOf(o)}
    /\ {RefreshChecks(t), RefreshChecks(o)} = {0, FORBIDDEN}

\* The login that minted its token first ran its upsert last, and its row
\* stands.
C6_Witness ==
  /\ Quiet /\ resp.op = "login" /\ resp.status = OK /\ resp.rival # NoToken
  /\ resp.setCookie[3] < resp.rival[3]
  /\ findRefreshTokenByUserId(resp.setCookie[2]) = {RecordOf(resp.setCookie)}
  /\ RefreshChecks(resp.rival) = FORBIDDEN

\* C7: a refresh with no cookie, or with a cookie that fails jwt.verify
\* under the refresh secret, is answered 401.
C7_Unauthorized ==
  resp.op = "refresh" =>
    /\ Len(resp.cookie) = 0 => resp.status = UNAUTHORIZED
    /\ (Len(resp.cookie) # 0 /\ JwtVerifyThrows(resp.cookie, env.REFRESH_TOKEN_SECRET)) =>
          resp.status = UNAUTHORIZED

\* C8: while a user has no row, the checks of refresh answer 403 to every
\* token issued to that user; a refresh that arrives with a verifying
\* token whose subject has no row, or with the token a logout was just
\* answered 204 for, is answered 403 on arrival and leaves the table as
\* it is.
C8_NoRecordForbidden ==
  /\ [](/\ \A t \in issued :
             findRefreshTokenByUserId(t[2]) = {} => RefreshChecks(t) = FORBIDDEN
        /\ (resp.op = "refresh" /\ resp.ctx \cap {"norecord", "loggedout"} # {}) =>
              resp.status = FORBIDDEN
        /\ \A s \in Slots : req[s].op = "refresh" => "norecord" \notin req[s].ctx)
  /\ [][(AnsweredOnArrival /\ resp'.op = "refresh" /\ "norecord" \in resp'.ctx) =>
          refreshTokens' = refreshTokens]_vars

\* A refresh with the token of the logout before it was answered 403, and
\* the user has no row.
C8_Witness ==
  /\ resp.op = "refresh" /\ resp.status = FORBIDDEN
  /\ {"norecord", "loggedout"} \subseteq resp.ctx
  /\ findRefreshTokenByUserId(resp.cookie[2]) = {}

\* C9: after a register or login answered 2xx the user's row holds the
\* hash and jti of the token set in the cookie, and a refresh that
\* presents that token next is answered 200.
C9_IssuedTokenAccepted ==
  /\ (Quiet /\ resp.op \in {"register", "login"} /\ resp.status \in {OK, CREATED}) =>
        findRefreshTokenByUserId(resp.setCookie[2]) = {RecordOf(resp.setCookie)}
  /\ (resp.op = "refresh" /\ resp.ctx \cap {"registered", "loggedin"} # {}) =>
        resp.status = OK

\* A refresh with the token of the register before it was answered 200.
C9_Witness ==
  /\ resp.op = "refresh" /\ "registered" \in resp.ctx /\ resp.status = OK
  /\ resp.body.refreshToken # NoToken

\* C10: a logout with no cookie is answered 400 and changes no row; a
\* logout whose cookie verifies and whose subject has a row removes that
\* row and no other, and is answered 204 with the cookie cleared.
C10_Logout ==
  /\ [](resp.op = "logout" =>
          /\ Len(resp.cookie) = 0 => resp.status = BAD_REQUEST
          /\ resp.status = NO_CONTENT => resp.setCookie = Cleared
          /\ ( /\ Len(resp.cookie) # 0
               /\ ~JwtVerifyThrows(resp.cookie, env.REFRESH_TOKEN_SECRET)
               /\ "norecord" \notin resp.ctx ) => resp.status = NO_CONTENT)
  /\ [][/\ \A s \in Slots :
             (Idle(s) /\ req'[s].op = "logout") =>
                LET mine == findRefreshTokenByUserId(req'[s].cookie[2]) IN
                /\ mine # {}
                /\ refreshTokens' = refreshTokens \ mine
        /\ (AnsweredOnArrival /\ resp'.op = "logout" /\ resp'.status = BAD_REQUEST) =>
              refreshTokens' = refreshTokens]_vars

\* A logout was answered 204, its user has no row and another user has.
C10_Witness ==
  /\ resp.op = "logout" /\ resp.status = NO_CONTENT /\ resp.setCookie = Cleared
  /\ findRefreshTokenByUserId(resp.cookie[2]) = {}
  /\ refreshTokens # {}

\* C11: a logout that arrives with a refresh token that was rotated out by
\* a refresh or replaced by a login, while its subject has a row, finds
\* the checks of refresh answering 403 to that token, removes the
\* subject's row, which is the row of another token, and is answered 204.
C11_StaleTokenLogsOut ==
  /\ []((resp.op = "logout" /\ resp.ctx \cap {"spent", "stale"} # {} /\ "norecord" \notin resp.ctx) =>
          resp.status = NO_CONTENT)
  /\ [][\A s \in Slots :
          (Idle(s) /\ req'[s].op = "logout" /\ req'[s].ctx \cap {"spent", "stale"} # {}) =>
             LET t == req'[s].cookie IN
             /\ RefreshChecks(t) = FORBIDDEN
             /\ findRefreshTokenByUserId(t[2]) # {}
             /\ RecordOf(t) \notin refreshTokens
             /\ refreshTokens' = refreshTokens \ findRefreshTokenByUserId(t[2])]_vars

\* A logout with the token that a refresh rotated out was answered 204 and
\* the row of the token that refresh issued is gone.
C11_Witness ==
  /\ resp.op = "logout" /\ "spent" \in resp.ctx /\ resp.status = NO_CONTENT
  /\ findRefreshTokenByUserId(resp.cookie[2]) = {}
  /\ \E p \in rotations : p[1] = resp.cookie /\ p[2] \in issued

\* C12: whenever one login names an email that no user has and another
\* names a user's email with a wrong password, the checks of login give
\* both the same status, 401, and the same message; a login answered 401
\* carries nothing but the status and the message and leaves the users and
\* the rows as they are.
C12_LoginIndistinguishable ==
  /\ [](\A b1, b2 \in Bodies :
          ( /\ isObject(b1) /\ isObject(b2)
            /\ findUserByEmail(b1.email) = {}
            /\ \E u \in findUserByEmail(b2.email) : ~compare(b2.password, u.hashedPassword) ) =>
               /\ LoginChecks(b1) = LoginChecks(b2)
               /\ LoginChecks(b1).status = UNAUTHORIZED)
  /\ [][(AnsweredOnArrival /\ resp'.op = "login" /\ resp'.status = UNAUTHORIZED) =>
          /\ resp' = [Respond(NewReq("login", NoToken), UNAUTHORIZED)
                        EXCEPT !.body = Json("Email or password are incorrect")]
          /\ users' = users
          /\ refreshTokens' = refreshTokens]_vars

\* A login was answered 401 while one of the two emails is registered and
\* the other is not.
C12_Witness ==
  /\ resp.op = "login" /\ resp.status = UNAUTHORIZED
  /\ \E b1, b2 \in Bodies :
        /\ isObject(b1) /\ isObject(b2)
        /\ findUserByEmail(b1.email) = {}
        /\ \E u \in findUserByEmail(b2.email) : ~compare(b2.password, u.hashedPassword)

\* C18: a logout whose cookie verifies and whose subject has no row is
\* answered 500 on arrival, without clearing the cookie, and leaves the
\* subject without a row.
C18_LogoutWithoutRecord ==
  /\ [](/\ (resp.op = "logout" /\ "norecord" \in resp.ctx) =>
             /\ resp.status = INTERNAL_SERVER_ERROR
             /\ resp.setCookie = NoToken
        /\ \A s \in Slots : req[s].op = "logout" => "norecord" \notin req[s].ctx)
  /\ [][(AnsweredOnArrival /\ resp'.op = "logout" /\ "norecord" \in resp'.ctx) =>
          /\ refreshTokens' = refreshTokens
          /\ findRefreshTokenByUserId(resp'.cookie[2]) = {}]_vars

\* The second of two logouts with the same token was answered 500.
C18_Witness ==
  /\ resp.op = "logout" /\ resp.status = INTERNAL_SERVER_ERROR
  /\ {"norecord", "loggedout"} \subseteq resp.ctx
  /\ resp.setCookie = NoToken
  /\ findRefreshTokenByUserId(resp.cookie[2]) = {}

\* The operations of the session protocol and those behind
\* authenticateToken.
SessionOps == {"register", "login", "logout", "refresh"}

ApiOps == {"createApplication", "deleteApplication", "updateApplication", "getAllApplications"}

\* The header carries a token that jwt.verify accepts under the access
\* secret.
ValidBearer(h) ==
  /\ Len(h) = 2
  /\ h[1] = "Bearer"
  /\ ~JwtVerifyThrows(h[2], env.ACCESS_TOKEN_SECRET)

\* C13: a request to an endpoint behind authenticateToken whose header is
\* missing, is not 'Bearer <token>', or carries a token that fails
\* jwt.verify under the access secret, is answered 401 and no controller
\* runs; a controller runs only with req.userId set to the subject of a
\* token that verifies.
C13_MiddlewareRejects ==
  resp.op \in ApiOps =>
    /\ ~ValidBearer(resp.authorization) => (resp.status = UNAUTHORIZED /\ resp.userId = 0)
    /\ resp.userId # 0 =>
          (ValidBearer(resp.authorization) /\ resp.userId = JwtDecoded(resp.authorization[2]).sub)

\* C14: every response to a register, login, logout or refresh request is
\* sent by the controller: no exception leaves it.
C14_FailuresMapped == resp.op \in SessionOps => resp.status # 0

\* C15: while a signing secret is unset, every request to a session
\* endpoint or through authenticateToken is answered 500.
C15_MisconfiguredIs500 ==
  [][(resp' # resp /\ Misconfigured) => resp'.status = INTERNAL_SERVER_ERROR]_vars

\* C16: users are never removed; a register that is answered 500 after it
\* stored its user leaves that user without a row; while the secrets are
\* set and the database is up, the checks of login pass the email and
\* password of every user who has no row, and the upsert of such a login
\* is answered 200 and creates the row of the token it issued.
C16_NoRollback ==
  /\ [](\A b \in Bodies :
          ( /\ isObject(b) /\ ~Misconfigured /\ ~dbDown
            /\ \E u \in users : /\ u.email = b.email
                                /\ u.hashedPassword = hash(b.password)
                                /\ findRefreshTokenByUserId(u.id) = {} ) =>
               LoginChecks(b).status = 0)
  /\ [][/\ users \subseteq users'
        /\ (resp' # resp /\ resp'.op = "register" /\ resp'.status = INTERNAL_SERVER_ERROR) =>
              /\ \A u \in users' \ users : findRefreshTokenByUserId(u.id) = {} /\ refreshTokens' = refreshTokens
              /\ \A s \in Slots :
                   (req[s].op = "register" /\ req[s].pc = "createRefreshToken" /\ req'[s].pc = "idle") =>
                      /\ findUserById(req[s].userId) # {}
                      /\ \A r \in refreshTokens' : r.userId # req[s].userId
        /\ \A s \in Slots :
             ( /\ req[s].op = "login" /\ req[s].pc = "upsert" /\ req'[s].pc = "idle"
               /\ ~dbDown /\ findRefreshTokenByUserId(req[s].userId) = {} ) =>
                  /\ resp'.status = OK
                  /\ {r \in refreshTokens' : r.userId = req[s].userId} = {RecordOf(req[s].refreshToken)}]_vars

\* A login was answered 200 with the first token its user ever got: the
\* registration of that user had failed after the user was stored.
C16_Witness ==
  /\ resp.op = "login" /\ resp.status = OK
  /\ {t \in issued : t[2] = resp.setCookie[2]} = {resp.setCookie}
  /\ findRefreshTokenByUserId(resp.setCookie[2]) = {RecordOf(resp.setCookie)}

\* C17: a PATCH or DELETE of /applications/:id changes or removes only
\* applications owned by the req.userId it ran with.
C17_Scoped ==
  [][\A a \in applications :
       (a \notin applications' /\ resp'.op \in {"deleteApplication", "updateApplication"}) =>
          a.userId = resp'.userId]_vars

\* C19: every row holds the hash and the jti of one refresh token that was
\* minted, and every issued token that matches the stored hash of its
\* subject's row also has the stored jti.
C19_HashAndJtiAgree ==
  /\ \A r \in refreshTokens :
       \E t \in issued \cup {req[s].refreshToken : s \in Slots} : Len(t) # 0 /\ r = RecordOf(t)
  /\ \A t \in issued : \A r \in findRefreshTokenByUserId(t[2]) :
       compare(t, r.hash) => JwtDecoded(t).jti = r.jti

\* C20: authenticateToken accepts every access token that reached a client
\* and passes its subject on, whatever rows RefreshToken holds; a GET
\* /applications with such a token is answered 200 for that subject.
C20_AccessTokenStateless ==
  /\ \A t \in issuedAccess :
       authenticateToken(<<"Bearer", t>>) = [status |-> 0, message |-> "", userId |-> t[2]]
  /\ ( /\ resp.op = "getAllApplications"
       /\ Len(resp.authorization) = 2
       /\ resp.authorization[2] \in issuedAccess ) =>
          /\ resp.status = OK
          /\ resp.userId = resp.authorization[2][2]

\* A GET /applications was answered 200 for an access token whose refresh
\* token was rotated out and whose subject has logged out since.
C20_Witness ==
  /\ resp.op = "getAllApplications" /\ resp.status = OK
  /\ Len(resp.authorization) = 2
  /\ resp.authorization[2] \in issuedAccess
  /\ findRefreshTokenByUserId(resp.userId) = {}
  /\ \E p \in rotations : p[1][2] = resp.userId /\ p[1][3] = resp.authorization[2][3] + 1

\* C21: a register, login, logout or refresh request that is answered 400,
\* 401 or 403 is answered in the stretch it arrived in, before any write,
\* and that stretch leaves the users and every row as they are; so does a
\* refresh that presents a rotated-out token.
C21_ClientErrorsChangeNothing ==
  /\ [](resp.op \in SessionOps =>
          /\ (resp.op = "refresh" /\ "spent" \in resp.ctx) => resp.status = FORBIDDEN
          /\ resp.status \in {BAD_REQUEST, UNAUTHORIZED, FORBIDDEN} => resp.setCookie = NoToken)
  /\ [][(resp' # resp /\ resp'.op \in SessionOps
           /\ resp'.status \in {BAD_REQUEST, UNAUTHORIZED, FORBIDDEN}) =>
          /\ req' = req
          /\ users' = users
          /\ refreshTokens' = refreshTokens]_vars

\* A refresh with a rotated-out token was answered 403 and the token that
\* replaced it still passes the checks of refresh.
C21_Witness ==
  /\ resp.op = "refresh" /\ resp.status = FORBIDDEN /\ "spent" \in resp.ctx
  /\ \E p \in rotations : p[1] = resp.cookie /\ RefreshChecks(p[2]) = 0

\* C22: while the last response is the 200 of a login and the row that
\* login wrote stands, the update of a refresh that presented another
\* token leaves that row as it is, and such a refresh is not answered 200.
C22_LoginNotUndone ==
  [][\A s \in Slots :
       ( /\ req[s].op = "refresh"
         /\ resp.op = "login" /\ resp.status = OK
         /\ resp.setCookie[2] = req[s].userId
         /\ resp.setCookie # req[s].cookie
         /\ RecordOf(resp.setCookie) \in refreshTokens ) =>
            /\ (req[s].pc = "update" /\ req'[s].pc # "update") =>
                  RecordOf(resp.setCookie) \in refreshTokens'
            /\ (req[s].pc = "findUser" /\ req'[s].pc = "idle") => resp'.status # OK]_vars

\* C23: the update of a refresh whose subject has no row any more changes
\* no row and the refresh is answered 500; a user who has no row gets one
\* only from the last stretch of a register or a login.
C23_LogoutNotUndone ==
  [][/\ \A s \in Slots :
          ( /\ req[s].op = "refresh" /\ req[s].pc = "update" /\ req'[s].pc # "update"
            /\ findRefreshTokenByUserId(req[s].userId) = {} ) =>
               /\ resp'.op = "refresh"
               /\ resp'.cookie = req[s].cookie
               /\ resp'.status = INTERNAL_SERVER_ERROR
               /\ resp'.setCookie = NoToken
               /\ req'[s].pc = "idle"
               /\ refreshTokens' = refreshTokens
     /\ \A u \in users :
          ( /\ findRefreshTokenByUserId(u.id) = {}
            /\ \E r \in refreshTokens' : r.userId = u.id ) =>
               \E s \in Slots : /\ req[s].op \in {"register", "login"}
                                /\ req[s].userId = u.id
                                /\ req[s].pc # "idle" /\ req'[s].pc = "idle"]_vars

\* A refresh that had passed its checks was answered 500 because a logout
\* had deleted the row before its update; the user has no row.
C23_Witness ==
  /\ resp.op = "refresh" /\ resp.status = INTERNAL_SERVER_ERROR
  /\ resp.cookie \in issued
  /\ ~JwtVerifyThrows(resp.cookie, env.REFRESH_TOKEN_SECRET)
  /\ findRefreshTokenByUserId(resp.cookie[2]) = {}
  /\ \A s \in Slots : req[s].op # "refresh"

\* C25: a step that stores an application is a POST /applications whose
\* new row is owned by the subject of the presented access token, and a
\* GET /applications answered 200 returns exactly the rows owned by the
\* subject of its token.
C25_OwnershipFollowsToken ==
  /\ [][\A a \in applications' :
          (\A b \in applications : b.id # a.id) =>
             /\ resp'.op = "createApplication"
             /\ ValidBearer(resp'.authorization)
             /\ a.userId = JwtDecoded(resp'.authorization[2]).sub
             /\ a.userId = resp'.userId]_vars
  /\ []((resp.op = "getAllApplications" /\ resp.status = OK) =>
          /\ ValidBearer(resp.authorization)
          /\ resp.body.applications =
               {a \in applications : a.userId = JwtDecoded(resp.authorization[2]).sub}
          /\ \A a \in resp.body.applications : a.userId = resp.userId)

\* Two users own applications and a GET /applications returned the one
\* user's rows and left out the other's.
C25_Witness ==
  /\ resp.op = "getAllApplications" /\ resp.status = OK
  /\ resp.body.applications # {}
  /\ \E a \in applications : a.userId # resp.userId

\* C24: no two users share an email; a step that adds a user gives it an
\* email no user had; and a register answered 500 on arrival, which with the
\* environment configured and the database up is a register with a taken
\* email, adds no user, changes no user and no row, and carries no tokens.
C24_DuplicateEmail ==
  /\ [](\A u1, u2 \in users : u1.email = u2.email => u1 = u2)
  /\ [][/\ \A u \in users' : (\A v \in users : v.id # u.id) => findUserByEmail(u.email) = {}
        /\ (AnsweredOnArrival /\ resp'.op = "register"
              /\ resp'.status = INTERNAL_SERVER_ERROR) =>
             /\ users' = users
             /\ refreshTokens' = refreshTokens
             /\ resp'.setCookie = NoToken
             /\ resp'.body = NoBody
        /\ (AnsweredOnArrival /\ resp'.op = "register" /\ users' = users) =>
             resp'.status \in {BAD_REQUEST, INTERNAL_SERVER_ERROR}]_vars

\* A register was answered 500 for a taken email; every user has a row
\* and one of them has updated its profile.
C24_Witness ==
  /\ resp.op = "register" /\ resp.status = INTERNAL_SERVER_ERROR
  /\ users # {}
  /\ \A u \in users : findRefreshTokenByUserId(u.id) # {}
  /\ \E u \in users : u.firstname = "Al"

\* C26: a GET /users/me never changes a user and a 200 to it carries the
\* profile of the token's subject; a step that changes the firstname, email
\* or username of a user is a PATCH /users/me.
C26_MethodMatchesEffect ==
  /\ [](resp.op = "GET /users/me" /\ ValidBearer(resp.authorization) =>
          /\ resp.status = OK
          /\ resp.body.users = findUserById(JwtDecoded(resp.authorization[2]).sub))
  /\ [][/\ resp'.op = "GET /users/me" /\ resp' # resp => users' = users
        /\ (\E u \in users : u \notin users') => resp'.op = "PATCH /users/me"]_vars

\* C27: prisma.$disconnect() and server.close are called at most once; a
\* signal or a failed database check that comes while shuttingDown changes
\* nothing; forceTimer is armed from the first call until the process
\* exits; the process exits from the close callback with the exit code of
\* the first call, or 1 on a close error, or from forceTimer with 1; and
\* once shutdown has started the process eventually exits.
C27_ShutdownOnce ==
  /\ [](proc.disconnects <= 1 /\ proc.closes <= 1)
  /\ []((proc.shuttingDown /\ ~proc.exited) => proc.forceTimer = "armed")
  /\ [](proc.exited =>
          \/ /\ proc.exitFrom = "close"
             /\ proc.forceTimer = "cleared"
             /\ proc.closes = 1
             /\ proc.code = IF proc.closeErr THEN 1 ELSE proc.exitCode
          \/ /\ proc.exitFrom = "timer"
             /\ proc.forceTimer = "armed"
             /\ proc.code = 1)
  /\ [][proc.shuttingDown =>
          /\ proc'.shuttingDown
          /\ proc'.exitCode = proc.exitCode
          /\ proc'.disconnects = proc.disconnects
          /\ (proc'.signals # proc.signals \/ proc'.dbCheck # proc.dbCheck) =>
                [proc' EXCEPT !.signals = proc.signals, !.dbCheck = proc.dbCheck] = proc]_vars
  /\ (proc.shuttingDown ~> proc.exited)

\* The database check failed, so the first call was shutdown(1); two
\* signals came later; the process exited with 1 from the close callback,
\* which had no error.
C27_Witness ==
  /\ proc.exited /\ proc.exitFrom = "close" /\ ~proc.closeErr
  /\ proc.dbCheck = "failed" /\ proc.exitCode = 1 /\ proc.code = 1
  /\ proc.signals = MaxSignals
  /\ proc.disconnects = 1 /\ proc.closes = 1

====
